---- MODULE Spec2Model ----
(***************************************************************************)
(* pyvlx Heartbeat (src/pyvlx/heartbeat.py): a timer-driven polling loop   *)
(* running as an asyncio task, with start() and a blocking stop().         *)
(*                                                                         *)
(* The asyncio substrate is modelled as it executes the code: one event    *)
(* loop with a FIFO queue of ready callbacks (`ready`), coroutines that    *)
(* run atomically from one suspension point to the next, Event objects     *)
(* whose set() resolves the futures of the waiters present at that moment, *)
(* and call_later timers that are pending, then due (queued in `ready`),   *)
(* then fired, unless canceled first.  Simulated time (`now`, in seconds)  *)
(* advances only when the event loop is idle, to the next timer deadline.  *)
(***************************************************************************)
EXTENDS Integers, Sequences, FiniteSets, TLC

\* ---------------------------------------------------------------- bounds
MaxCalls == 4       \* calls of start() and stop() together
MaxCycles == 2      \* the clock stops at MaxCycles * timeout_in_seconds
MaxNodes == 1       \* entries of the node registry
MaxFanout == 3      \* entries of the node registry when only pulse() is studied
MaxPayload == 3     \* bytes of a payload handed to build()
MaxByte == 3        \* payload bytes are drawn from 0..MaxByte
MaxLoops == 2       \* start() calls when start() is called at any moment

\* default of the constructor's timeout_in_seconds
DefaultTimeout == 60

VARIABLES
    stopped,            \* self.stopped
    loop_event,         \* self.loop_event (is_set)
    stopped_event,      \* self.stopped_event (is_set)
    timeout_handle,     \* self.timeout_handle: 0 (None) or an index of timers
    run_task,           \* self.run_task: 0 (None) or an index of tasks
    timeout_in_seconds, \* self.timeout_in_seconds
    nodes,              \* self.pyvlx.nodes: sequence of device kinds, node_id = index
    timers,             \* every TimerHandle call_later returned: [st, when, by]
    tasks,              \* every loop() task created: [pc, res, idx, pulses, calls, failed]
    stops,              \* every stop() call made: [pc, gen, lpc, pulses, handle, hst]
    ready,              \* the event loop's FIFO queue of ready callbacks
    now,                \* simulated clock, seconds
    payload,            \* the byte sequence handed to build()
    frame               \* what build() gave: nothing yet, a FrameEnvelope, or an error

vars == <<stopped, loop_event, stopped_event, timeout_handle, run_task,
          timeout_in_seconds, nodes, timers, tasks, stops, ready, now, payload, frame>>

\* ------------------------------------------------------------ vocabulary
DeviceKinds == {"Blind", "Window"}

\* How one awaited do_api_call() resolves: it returns with success set, returns
\* with success unset, raises PyVLXException, or raises any other exception.
ApiOutcomes == {"success", "failure", "PyVLXException", "error"}

\* A task is alive until loop() returns ("done") or dies of an uncaught
\* exception ("crashed").
Exited == {"done", "crashed"}

InPulse == {"get_state", "status_request"}

TaskHandle(i) == [kind |-> "task", id |-> i]
StopHandle(j) == [kind |-> "stop", id |-> j]
TimerHandle(t) == [kind |-> "timer", id |-> t]

\* Registries of every length up to n.
Registries(n) == UNION {[1..m -> DeviceKinds] : m \in 0..n}

\* The supervisor is Running while a loop task is alive.
Running == \E i \in DOMAIN tasks : tasks[i].pc \notin Exited

\* Timers the scheduler still holds: not canceled, callback not yet run.
ActiveTimers == {t \in DOMAIN timers : timers[t].st \in {"pending", "due"}}

\* The part of the state the coroutines and callbacks of Heartbeat rewrite,
\* threaded through the operators below.
Cur ==
    [loop_event |-> loop_event, stopped_event |-> stopped_event,
     timeout_handle |-> timeout_handle, timers |-> timers, tasks |-> tasks,
     stops |-> stops, ready |-> ready]

Commit(b) ==
    /\ loop_event' = b.loop_event
    /\ stopped_event' = b.stopped_event
    /\ timeout_handle' = b.timeout_handle
    /\ timers' = b.timers
    /\ tasks' = b.tasks
    /\ stops' = b.stops
    /\ ready' = b.ready

\* ---------------------------------------------------------------- asyncio
\* asyncio.Event.set() on self.loop_event: when not yet set, the flag is set and
\* the future of every task suspended in loop_event.wait() is resolved, which
\* queues that task's wake-up.
loop_event_set(b) ==
    IF b.loop_event THEN b
    ELSE [b EXCEPT
            !.loop_event = TRUE,
            !.tasks = [i \in DOMAIN b.tasks |->
                         IF b.tasks[i].pc = "wait"
                         THEN [b.tasks[i] EXCEPT !.pc = "woken"]
                         ELSE b.tasks[i]],
            !.ready = b.ready \o
                      SelectSeq([i \in DOMAIN b.tasks |-> TaskHandle(i)],
                                LAMBDA h : b.tasks[h.id].pc = "wait")]

\* asyncio.Event.set() on self.stopped_event: resolves the future of every
\* stop() call suspended in stopped_event.wait().
stopped_event_set(b) ==
    IF b.stopped_event THEN b
    ELSE [b EXCEPT
            !.stopped_event = TRUE,
            !.stops = [j \in DOMAIN b.stops |->
                         IF b.stops[j].pc = "waiting"
                         THEN [b.stops[j] EXCEPT !.pc = "woken"]
                         ELSE b.stops[j]],
            !.ready = b.ready \o
                      SelectSeq([j \in DOMAIN b.stops |-> StopHandle(j)],
                                LAMBDA h : b.stops[h.id].pc = "waiting")]

\* loop.call_later(self.timeout_in_seconds, self.loop_timeout), stored in
\* self.timeout_handle; the handle recorded before is overwritten, not canceled.
call_later(b, i) ==
    [b EXCEPT
       !.timers = Append(b.timers,
                         [st |-> "pending", when |-> now + timeout_in_seconds, by |-> i]),
       !.timeout_handle = Len(b.timers) + 1]

\* A timer the scheduler has dropped (its callback ran, or it was canceled)
\* keeps its place in `timers`, so that handles stay valid, and nothing else.
Retired(st) == [st |-> st, when |-> 0, by |-> 0]

\* Variant: the timer is canceled and the handle keeps referring to it.
cancel_loop_timeout_keeps_handle(b) ==
    IF b.timeout_handle = 0 THEN b
    ELSE LET t == b.timeout_handle IN
         [b EXCEPT
            !.timers = IF b.timers[t].st \in {"pending", "due"}
                       THEN [b.timers EXCEPT ![t] = Retired("canceled")]
                       ELSE b.timers,
            !.ready = SelectSeq(b.ready, LAMBDA h : h # TimerHandle(t))]

\* ------------------------------------------------------------- Heartbeat
\* Variant: the handle is dropped without canceling the timer.
cancel_loop_timeout_dropped(b) == [b EXCEPT !.timeout_handle = 0]

\* Heartbeat.cancel_loop_timeout: TimerHandle.cancel() removes a pending timer
\* from the scheduler and makes the event loop skip a due one; canceling a timer
\* that fired or was canceled changes nothing.
cancel_loop_timeout(b) ==
    IF b.timeout_handle = 0 THEN b
    ELSE LET t == b.timeout_handle IN
         [b EXCEPT
            !.timers = IF b.timers[t].st \in {"pending", "due"}
                       THEN [b.timers EXCEPT ![t] = Retired("canceled")]
                       ELSE b.timers,
            !.ready = SelectSeq(b.ready, LAMBDA h : h # TimerHandle(t)),
            !.timeout_handle = 0]

\* Heartbeat.loop_timeout, the timer's callback.
loop_timeout(b) == loop_event_set(b)

\* pulse() up to its first suspension: the GetState call is issued.
pulse_begin(b, i) ==
    [b EXCEPT !.tasks[i] = [@ EXCEPT !.pc = "get_state", !.res = "none", !.idx = 0,
                                      !.pulses = @ + 1, !.calls = <<>>]]

\* pulse() has returned or raised and nothing of it is in flight any more;
\* `failed` records, until the next pulse ends, whether it raised because its
\* get-state call did not report success.
pulse_end(b, i, failed) ==
    [b EXCEPT !.tasks[i] = [@ EXCEPT !.res = "none", !.idx = 0, !.calls = <<>>,
                                      !.failed = failed]]

\* The lines after the while-loop: cancel the timer, signal the stopper.
loop_exit(b, i) ==
    stopped_event_set(cancel_loop_timeout(
        [b EXCEPT !.tasks[i] = [@ EXCEPT !.pc = "done", !.failed = FALSE]]))

\* One pass of loop() from the while-condition to its next suspension point.
\* loop_event.wait() does not suspend when the event is already set.
loop_iter(b, i) ==
    IF stopped THEN loop_exit(b, i)
    ELSE LET b1 == call_later(b, i) IN
         IF b1.loop_event
         THEN pulse_begin([b1 EXCEPT !.loop_event = FALSE], i)
         ELSE [b1 EXCEPT !.tasks[i].pc = "wait"]

\* Variant: the wake signal is not cleared before the pulse.
loop_wake_uncleared(b, i) ==
    IF ~stopped THEN pulse_begin(b, i) ELSE loop_iter(b, i)

\* loop() resuming from loop_event.wait().
loop_wake(b, i) ==
    IF ~stopped
    THEN pulse_begin([b EXCEPT !.loop_event = FALSE], i)
    ELSE loop_iter(b, i)

\* An exception that `except PyVLXException` does not catch leaves loop():
\* the task ends without canceling the timer or setting stopped_event.
loop_raise(b, i) == [b EXCEPT !.tasks[i].pc = "crashed"]

\* Variant: every node is taken, whatever its kind.
NextBlind_any_kind(from) == IF from \in DOMAIN nodes THEN from ELSE 0

\* The first index >= from of a Blind node, 0 when there is none.
NextBlind(from) ==
    LET S == {k \in DOMAIN nodes : k >= from /\ nodes[k] = "Blind"} IN
    IF S = {} THEN 0 ELSE CHOOSE k \in S : \A m \in S : k <= m

\* Variant: the for-loop gives up once a stop was requested.
pulse_nodes_interruptible(b, i, from) ==
    LET k == IF stopped THEN 0 ELSE NextBlind(from) IN
    IF k = 0 THEN loop_iter(pulse_end(b, i, FALSE), i)
    ELSE [b EXCEPT !.tasks[i] = [@ EXCEPT !.pc = "status_request", !.res = "none",
                                           !.idx = k, !.calls = Append(@, k)]]

\* pulse()'s for-loop from registry index `from` to its next suspension: the
\* status request of the next Blind node is issued, or pulse() returns to loop().
pulse_nodes(b, i, from) ==
    LET k == NextBlind(from) IN
    IF k = 0 THEN loop_iter(pulse_end(b, i, FALSE), i)
    ELSE [b EXCEPT !.tasks[i] = [@ EXCEPT !.pc = "status_request", !.res = "none",
                                           !.idx = k, !.calls = Append(@, k)]]

\* Variant: the success flag of the get-state call is not read.
pulse_get_state_done_unchecked(b, i) ==
    LET r == b.tasks[i].res IN
    CASE r \in {"success", "failure"} -> pulse_nodes(b, i, 1)
      [] r = "PyVLXException" -> loop_iter(pulse_end(b, i, FALSE), i)
      [] OTHER -> loop_raise(pulse_end(b, i, FALSE), i)

\* Variant: the PyVLXException of a failed get-state is not caught by loop().
pulse_get_state_done_uncaught(b, i) ==
    LET r == b.tasks[i].res IN
    CASE r = "success" -> pulse_nodes(b, i, 1)
      [] r = "failure" -> loop_raise(pulse_end(b, i, TRUE), i)
      [] r = "PyVLXException" -> loop_iter(pulse_end(b, i, FALSE), i)
      [] OTHER -> loop_raise(pulse_end(b, i, FALSE), i)

\* pulse() resuming from get_state.do_api_call().
pulse_get_state_done(b, i) ==
    LET r == b.tasks[i].res IN
    CASE r = "success" -> pulse_nodes(b, i, 1)
      [] r = "failure" -> loop_iter(pulse_end(b, i, TRUE), i)
      [] r = "PyVLXException" -> loop_iter(pulse_end(b, i, FALSE), i)
      [] OTHER -> loop_raise(pulse_end(b, i, FALSE), i)

\* pulse() resuming from status_request.do_api_call(): its success flag is not read.
pulse_status_done(b, i) ==
    LET r == b.tasks[i].res IN
    CASE r \in {"success", "failure"} -> pulse_nodes(b, i, b.tasks[i].idx + 1)
      [] r = "PyVLXException" -> loop_iter(pulse_end(b, i, FALSE), i)
      [] OTHER -> loop_raise(pulse_end(b, i, FALSE), i)

\* ------------------------------------------------------------------ Init
NewTask == [pc |-> "start", res |-> "none", idx |-> 0, pulses |-> 0, calls |-> <<>>,
            failed |-> FALSE]

\* Heartbeat.__init__, for a registry of at most n nodes.
Constructed(n) ==
    /\ stopped = FALSE
    /\ loop_event = FALSE
    /\ stopped_event = FALSE
    /\ timeout_handle = 0
    /\ run_task = 0
    /\ timeout_in_seconds = DefaultTimeout
    /\ nodes \in Registries(n)
    /\ timers = <<>>
    /\ tasks = <<>>
    /\ stops = <<>>
    /\ ready = <<>>
    /\ now = 0

\* No frame is under construction while the supervisor is studied.
NoFrame == [st |-> "none"]

Init == Constructed(MaxNodes) /\ payload = <<>> /\ frame = NoFrame

\* Variant: start() leaves the stop-complete signal as it finds it.
start_keeps_stopped_event ==
    /\ stopped' = FALSE
    /\ run_task' = Len(tasks) + 1
    /\ tasks' = Append(tasks, NewTask)
    /\ ready' = Append(ready, TaskHandle(Len(tasks) + 1))
    /\ UNCHANGED <<loop_event, stopped_event, timeout_handle, timeout_in_seconds,
                   nodes, timers, stops, now, payload, frame>>

\* --------------------------------------------------------------- actions
\* Heartbeat.start(), as create_task queues the new task's first step.
start ==
    /\ stopped' = FALSE
    /\ stopped_event' = FALSE
    /\ run_task' = Len(tasks) + 1
    /\ tasks' = Append(tasks, NewTask)
    /\ ready' = Append(ready, TaskHandle(Len(tasks) + 1))
    /\ UNCHANGED <<loop_event, timeout_handle, timeout_in_seconds, nodes, timers,
                   stops, now,
                   payload, frame>>

\* A caller that respects start()'s precondition.
Start ==
    /\ Len(tasks) + Len(stops) < MaxCalls
    /\ ~Running
    /\ start

\* Variant: stop() does not wait for the event.
stopped_event_wait_skipped(b) == "returned"

\* stopped_event.wait() in stop(): returns at once when the event is set,
\* suspends the caller otherwise.
stopped_event_wait(b) == IF b.stopped_event THEN "returned" ELSE "waiting"

\* The record of a stop() call: where it stands, and what it found when it
\* was made (the loop task and its position, the pulses made, the timer armed).
NewStop(b) ==
    [pc |-> stopped_event_wait(b),
     gen |-> run_task,
     lpc |-> IF run_task = 0 THEN "none" ELSE tasks[run_task].pc,
     pulses |-> IF run_task = 0 THEN 0 ELSE tasks[run_task].pulses,
     handle |-> timeout_handle,
     hst |-> IF timeout_handle = 0 THEN "none" ELSE timers[timeout_handle].st]

\* Heartbeat.stop() up to its return or its suspension in stopped_event.wait().
stop ==
    /\ stopped' = TRUE
    /\ LET b == loop_event_set(Cur) IN
       Commit([b EXCEPT !.stops = Append(b.stops, NewStop(b))])
    /\ UNCHANGED <<run_task, timeout_in_seconds, nodes, now,
                   payload, frame>>

Stop ==
    /\ Len(tasks) + Len(stops) < MaxCalls
    /\ stop

\* stop() resuming from stopped_event.wait() and returning to its caller.
StopReturn ==
    /\ ready # <<>>
    /\ Head(ready).kind = "stop"
    /\ stops' = [stops EXCEPT ![Head(ready).id].pc = "returned"]
    /\ ready' = Tail(ready)
    /\ UNCHANGED <<stopped, loop_event, stopped_event, timeout_handle, run_task,
                   timeout_in_seconds, nodes, timers, tasks, now,
                   payload, frame>>

\* The event loop runs the next step of a loop() task.
RunTask ==
    /\ ready # <<>>
    /\ Head(ready).kind = "task"
    /\ LET i == Head(ready).id
           b == [Cur EXCEPT !.ready = Tail(ready)] IN
       Commit(CASE tasks[i].pc = "start" -> loop_iter(b, i)
                [] tasks[i].pc = "woken" -> loop_wake(b, i)
                [] tasks[i].pc = "get_state" -> pulse_get_state_done(b, i)
                [] tasks[i].pc = "status_request" -> pulse_status_done(b, i))
    /\ UNCHANGED <<stopped, run_task, timeout_in_seconds, nodes, now,
                   payload, frame>>

\* The gateway's answer (or the transport's error) resolves the ApiCall a task
\* is suspended in, which queues the task's wake-up.
ApiResolve ==
    \E i \in DOMAIN tasks, r \in ApiOutcomes :
        /\ tasks[i].pc \in InPulse
        /\ tasks[i].res = "none"
        /\ tasks' = [tasks EXCEPT ![i].res = r]
        /\ ready' = Append(ready, TaskHandle(i))
        /\ UNCHANGED <<stopped, loop_event, stopped_event, timeout_handle, run_task,
                       timeout_in_seconds, nodes, timers, stops, now,
                   payload, frame>>

\* The event loop runs a due timer's callback, loop_timeout.
TimerFire ==
    /\ ready # <<>>
    /\ Head(ready).kind = "timer"
    /\ LET t == Head(ready).id
           b == [Cur EXCEPT !.ready = Tail(ready), !.timers[t] = Retired("fired")] IN
       Commit(loop_timeout(b))
    /\ UNCHANGED <<stopped, run_task, timeout_in_seconds, nodes, now,
                   payload, frame>>

\* The deadline the clock would move to next: the earliest of the pending timers.
NextDeadline ==
    LET P == {t \in DOMAIN timers : timers[t].st = "pending"} IN
    IF P = {} THEN 0
    ELSE LET t == CHOOSE t \in P : \A u \in P : timers[t].when <= timers[u].when
         IN timers[t].when

\* With nothing ready to run, the event loop sleeps until the next timer deadline;
\* the scheduler then queues the callbacks of the timers that are due, in the
\* order they were armed.
Tick ==
    /\ ready = <<>>
    /\ NextDeadline > now
    /\ NextDeadline <= MaxCycles * timeout_in_seconds
    /\ now' = NextDeadline
    /\ timers' = [t \in DOMAIN timers |->
                    IF timers[t].st = "pending" /\ timers[t].when = NextDeadline
                    THEN [timers[t] EXCEPT !.st = "due"]
                    ELSE timers[t]]
    /\ ready' = SelectSeq([t \in DOMAIN timers |-> TimerHandle(t)],
                          LAMBDA h : timers[h.id].st = "pending"
                                     /\ timers[h.id].when = NextDeadline)
    /\ UNCHANGED <<stopped, loop_event, stopped_event, timeout_handle, run_task,
                   timeout_in_seconds, nodes, tasks, stops,
                   payload, frame>>

Next ==
    \/ Start
    \/ Stop
    \/ StopReturn
    \/ RunTask
    \/ ApiResolve
    \/ TimerFire
    \/ Tick

Spec == Init /\ [][Next]_vars

\* A supervisor that is started once and never stopped: pulse() on its own,
\* over larger registries.
InitPulse == Constructed(MaxFanout) /\ payload = <<>> /\ frame = NoFrame

StartOnce ==
    /\ tasks = <<>>
    /\ start

NextPulse ==
    \/ StartOnce
    \/ RunTask
    \/ ApiResolve
    \/ TimerFire
    \/ Tick

SpecPulse == InitPulse /\ [][NextPulse]_vars

\* ---------------------------------------------------------- FrameEnvelope
\* The command of FrameHouseStatusMonitorEnableRequest.
GW_HOUSE_STATUS_MONITOR_ENABLE_REQ == "GW_HOUSE_STATUS_MONITOR_ENABLE_REQ"

\* Variant: the frame class declares a one-byte payload.
PAYLOAD_LEN_one_byte == Len(<<0>>)

\* FrameHouseStatusMonitorEnableRequest.PAYLOAD_LEN
PAYLOAD_LEN == 0

\* The payload length declared for a command.
declared_payload_length(command) ==
    CASE command = GW_HOUSE_STATUS_MONITOR_ENABLE_REQ -> PAYLOAD_LEN

\* build(command, payload): the envelope, or the protocol encoding error when
\* the payload has not the declared length; nothing else is validated.
build(command, bytes) ==
    IF Len(bytes) = declared_payload_length(command)
    THEN [st |-> "built", command |-> command, payload |-> bytes]
    ELSE [st |-> "ProtocolEncodingError"]

\* Byte sequences of every length up to n.
Payloads(n) == UNION {[1..m -> 0..MaxByte] : m \in 0..n}

InitFrame ==
    /\ Constructed(0)
    /\ payload \in Payloads(MaxPayload)
    /\ frame = NoFrame

\* A request builder constructs the envelope of the command from `payload`.
BuildFrame ==
    /\ frame = NoFrame
    /\ frame' = build(GW_HOUSE_STATUS_MONITOR_ENABLE_REQ, payload)
    /\ UNCHANGED <<stopped, loop_event, stopped_event, timeout_handle, run_task,
                   timeout_in_seconds, nodes, timers, tasks, stops, ready, now,
                   payload>>

NextFrame == BuildFrame

SpecFrame == InitFrame /\ [][NextFrame]_vars

\* ------------------------------------------------- cancel_loop_timeout
\* A caller (or __del__) invokes cancel_loop_timeout() between two steps of the
\* event loop.
CancelLoopTimeout ==
    /\ Commit(cancel_loop_timeout(Cur))
    /\ UNCHANGED <<stopped, run_task, timeout_in_seconds, nodes, now, payload, frame>>

\* The supervisor is started once, stopped by any number of callers, and its
\* timer canceled from outside at any moment.
NextCancel ==
    \/ StartOnce
    \/ Stop
    \/ StopReturn
    \/ RunTask
    \/ ApiResolve
    \/ TimerFire
    \/ Tick
    \/ CancelLoopTimeout

SpecCancel == Init /\ [][NextCancel]_vars

\* ------------------------------------------------- start() at any moment
\* A caller that ignores start()'s precondition: start() is called whether or
\* not a loop is alive.
StartAny ==
    /\ Len(tasks) < MaxLoops
    /\ start

\* One caller calls stop(), once.
StopOnce ==
    /\ stops = <<>>
    /\ stop

NextAny ==
    \/ StartAny
    \/ StopOnce
    \/ StopReturn
    \/ RunTask
    \/ ApiResolve
    \/ TimerFire
    \/ Tick

SpecAny == Init /\ [][NextAny]_vars

\* ------------------------------------------------------------- fairness
\* The event loop runs every ready callback, every ApiCall resolves, and the
\* clock reaches every deadline it may move to; callers are under no obligation
\* to call start() or stop().
Fairness ==
    /\ WF_vars(RunTask)
    /\ WF_vars(StopReturn)
    /\ WF_vars(TimerFire)
    /\ WF_vars(ApiResolve)
    /\ WF_vars(Tick)

SpecLive == Spec /\ Fairness

SpecAnyLive == SpecAny /\ Fairness

\* ------------------------------------------------------------------ types
TypeOK ==
    /\ stopped \in BOOLEAN /\ loop_event \in BOOLEAN /\ stopped_event \in BOOLEAN
    /\ timeout_handle \in 0..Len(timers)
    /\ run_task = Len(tasks)
    /\ \A t \in DOMAIN timers : timers[t].st \in {"pending", "due", "fired", "canceled"}
    /\ \A i \in DOMAIN tasks :
          tasks[i].pc \in {"start", "wait", "woken", "done", "crashed"} \cup InPulse
    /\ \A j \in DOMAIN stops : stops[j].pc \in {"waiting", "woken", "returned"}
    /\ now \in 0..(MaxCycles * DefaultTimeout)
    /\ payload \in Payloads(MaxPayload)
    /\ frame.st \in {"none", "built", "ProtocolEncodingError"}

\* ----------------------------------------------------------------- claims
\* The stop() calls that have returned with no start() made since they were made.
ReturnedStops ==
    {j \in DOMAIN stops : stops[j].pc = "returned" /\ stops[j].gen = run_task}

\* Every stop() so far was made on a supervisor that had been started and whose
\* loop had not died of an exception.
StopsOnStarted == \A j \in DOMAIN stops : stops[j].lpc \notin {"none", "crashed"}

\* C1: once stop() has returned (and until a later start()), the scheduler holds
\* no timer of the supervisor: none is pending and none is due to fire.  Stated
\* for the runs in which stop() is only called on a started supervisor.
C1_NoTimerAfterStop ==
    (StopsOnStarted /\ ReturnedStops # {}) => ActiveTimers = {}

\* C2: a stop() call returns only after the loop task started by the preceding
\* start() has left its while-loop, and while that start() is the latest one no
\* loop task is alive (so no pulse can begin) after the return.
C2_StopReturnsAfterLoopExit ==
    \A j \in DOMAIN stops :
        stops[j].pc = "returned" =>
            /\ stops[j].gen > 0 => tasks[stops[j].gen].pc \in Exited
            /\ stops[j].gen = run_task => ~Running

\* C2 witness: a stop() made while the loop was alive has returned.
C2_Witness ==
    \E j \in DOMAIN stops :
        /\ stops[j].pc = "returned"
        /\ stops[j].lpc \in {"start", "wait", "woken"} \cup InPulse
        /\ tasks[stops[j].gen].pc = "done"

\* C3: a stop() made while the supervisor is not Running (never started, or its
\* loop has exited) returns to its caller without waiting for anything.
C3_IdleStopReturns ==
    \A j \in DOMAIN stops :
        stops[j].lpc \in {"none"} \cup Exited => stops[j].pc = "returned"

\* C4: at most one timer armed by the supervisor is pending at any time (so that
\* every timer armed earlier has fired or was canceled when a new one is armed).
\* Stated for the runs in which stop() is only called on a started supervisor.
C4_AtMostOneTimer == StopsOnStarted => Cardinality(ActiveTimers) <= 1

\* A step of task i that handles the resolved ApiCall it was suspended in.
Resumes(i) == tasks[i].pc \in InPulse /\ tasks[i].res # "none" /\ tasks'[i] # tasks[i]

C6_StatusFailureKeepsLoop ==
    [][\A i \in DOMAIN tasks :
          (Resumes(i) /\ tasks[i].pc = "status_request"
                /\ tasks[i].res \in {"PyVLXException", "error"}) =>
              tasks'[i].pc # "crashed"]_vars

RECURSIVE PulsesOf(_)
\* The pulses begun by the first n loop tasks together.
PulsesOf(n) == IF n = 0 THEN 0 ELSE tasks[n].pulses + PulsesOf(n - 1)

\* C7: with no stop() ever called, a pulse is in flight only when the timer armed
\* in the same iteration has fired, a waiting loop has its timer scheduled one
\* timeout after the previous pulse, every firing is answered by one pulse, and
\* the k-th pulse of the first loop happens at time k * timeout_in_seconds.
C7_PulsesFollowTimer ==
    stops = <<>> =>
        /\ \A i \in DOMAIN tasks :
              tasks[i].pc \in InPulse =>
                  /\ timeout_handle = Len(timers)
                  /\ timers[timeout_handle].st = "fired"
                  /\ i = 1 => now = tasks[i].pulses * timeout_in_seconds
        /\ \A i \in DOMAIN tasks :
              tasks[i].pc = "wait" =>
                  /\ timeout_handle = Len(timers)
                  /\ timers[timeout_handle].st \in {"pending", "due"}
                  /\ timers[timeout_handle].by = i
                  /\ ActiveTimers = {timeout_handle}
                  /\ i = 1 => timers[timeout_handle].when
                                 = (tasks[i].pulses + 1) * timeout_in_seconds
        /\ Cardinality({t \in DOMAIN timers : timers[t].st = "fired"})
              = PulsesOf(Len(tasks))
                + Cardinality({i \in DOMAIN tasks : tasks[i].pc = "woken"})

\* C7 witness: the second pulse of the first loop is in flight at time 2 * timeout.
C7_Witness ==
    /\ stops = <<>>
    /\ Len(tasks) = 1
    /\ tasks[1].pc \in InPulse
    /\ tasks[1].pulses = 2
    /\ now = 2 * timeout_in_seconds

\* The stop() calls made while the loop was suspended in loop_event.wait() and
\* its timer was not yet due.
PromptStops ==
    {j \in DOMAIN stops : stops[j].lpc = "wait" /\ stops[j].hst = "pending"}

\* C8: after a stop() made while the loop waits and its timer is not yet due,
\* that timer never becomes due or fires, the loop begins no further pulse, and
\* the stop() call has returned only if the loop is done and the timer canceled.
C8_PromptStop ==
    \A j \in PromptStops :
        /\ timers[stops[j].handle].st \in {"pending", "canceled"}
        /\ tasks[stops[j].gen].pulses = stops[j].pulses
        /\ tasks[stops[j].gen].pc \in {"woken", "done"}
        /\ stops[j].pc = "returned" =>
              /\ tasks[stops[j].gen].pc = "done"
              /\ timers[stops[j].handle].st = "canceled"

\* C8 witness: such a stop() has returned.
C8_Witness == \E j \in PromptStops : stops[j].pc = "returned"


\* The ids of the Blind nodes, in registry order.
BlindIds == SelectSeq([k \in DOMAIN nodes |-> k], LAMBDA k : nodes[k] = "Blind")

\* A step of task i in which its pulse ends (pulse() returns or raises).
PulseEnds(i) == Resumes(i) /\ tasks'[i].pc \notin InPulse

\* The get-state call of the pulse task i has in flight has succeeded.
GetStateSucceeded(i) ==
    \/ tasks[i].pc = "status_request"
    \/ tasks[i].pc = "get_state" /\ tasks[i].res = "success"

\* The pulse of task i ends by pulse() returning, no ApiCall having raised.
ReturnsNormally(i) ==
    PulseEnds(i) /\ GetStateSucceeded(i) /\ tasks[i].res \in {"success", "failure"}

\* C9 as claimed: a pulse whose get-state call succeeded has issued, when it
\* ends, exactly one status request per Blind node.
C9_ExactlyOnePerBlind ==
    [][\A i \in DOMAIN tasks :
          (PulseEnds(i) /\ GetStateSucceeded(i)) => tasks[i].calls = BlindIds]_vars

\* C9 amended: the status requests a pulse has issued are at any moment the ids
\* of the first Blind nodes in registry order, none before get-state succeeded,
\* the latest being the one in flight; and a pulse that returns normally has
\* issued one per Blind node.
C9_OnePerBlindUnlessRaised ==
    /\ [](\A i \in DOMAIN tasks :
            /\ Len(tasks[i].calls) <= Len(BlindIds)
            /\ tasks[i].calls = SubSeq(BlindIds, 1, Len(tasks[i].calls))
            /\ tasks[i].pc = "get_state" => tasks[i].calls = <<>>
            /\ tasks[i].pc = "status_request" =>
                  /\ tasks[i].calls # <<>>
                  /\ tasks[i].idx = tasks[i].calls[Len(tasks[i].calls)])
    /\ [][\A i \in DOMAIN tasks :
            ReturnsNormally(i) => tasks[i].calls = BlindIds]_vars

\* C9 witness: over a registry of two Blind nodes and one other node, the last
\* of two status requests is in flight, the first having returned.
C9_Witness ==
    /\ Len(nodes) = 3
    /\ Len(BlindIds) = 2
    /\ \E i \in DOMAIN tasks :
          /\ tasks[i].pc = "status_request"
          /\ tasks[i].res \in {"success", "failure"}
          /\ tasks[i].calls = BlindIds

\* The stop() calls made while a pulse was in flight.
MidPulseStops == {j \in DOMAIN stops : stops[j].lpc \in InPulse}

\* The pulse of task i goes on with a further status request when it resumes.
Continues(i) ==
    /\ \/ tasks[i].res = "success"
       \/ tasks[i].pc = "status_request" /\ tasks[i].res = "failure"
    /\ NextBlind(tasks[i].idx + 1) # 0

\* C10: after a stop() made while a pulse is in flight the loop stays in that
\* pulse until it exits: it begins no further pulse, arms no further timer, and
\* the stop() has returned only if the loop has exited; and a pulse resuming
\* under a stop request goes on exactly as without one (the next status request
\* is issued), the loop exiting only when the pulse has ended.
C10_CooperativeStop ==
    /\ [](\A j \in MidPulseStops :
            /\ tasks[stops[j].gen].pc \in InPulse \cup Exited
            /\ tasks[stops[j].gen].pulses = stops[j].pulses
            /\ stops[j].gen = run_task => Len(timers) = stops[j].handle
            /\ stops[j].pc = "returned" => tasks[stops[j].gen].pc \in Exited)
    /\ [][\A i \in DOMAIN tasks :
            (stopped /\ Resumes(i)) =>
                /\ tasks'[i].pc = IF Continues(i) THEN "status_request"
                                  ELSE IF tasks[i].res = "error" THEN "crashed"
                                  ELSE "done"
                /\ Continues(i) =>
                      /\ tasks'[i].idx = NextBlind(tasks[i].idx + 1)
                      /\ tasks'[i].calls = Append(tasks[i].calls, tasks'[i].idx)
                /\ timers' = timers \/ tasks'[i].pc = "done"]_vars

\* C10 witness: a stop() was made during the get-state call, and the pulse has
\* since gone on to a status request.
C10_Witness ==
    \E j \in MidPulseStops :
        /\ stops[j].lpc = "get_state"
        /\ tasks[stops[j].gen].pc = "status_request"

RestartStops ==
    {j \in DOMAIN stops :
        /\ stops[j].gen > 1
        /\ stops[j].lpc \notin Exited
        /\ \E k \in DOMAIN stops : stops[k].gen < stops[j].gen /\ stops[k].pc = "returned"}

\* C12: a start() made after a completed stop() clears the stop flag and the
\* stop-complete signal and queues a new loop task; a stop() made on the
\* restarted supervisor stays suspended as long as the new loop is alive, and
\* has returned only if that loop has exited.
C12_Restartable ==
    /\ [](\A j \in RestartStops :
            /\ tasks[stops[j].gen].pc \notin Exited => stops[j].pc = "waiting"
            /\ stops[j].pc = "returned" => tasks[stops[j].gen].pc \in Exited)
    /\ [][(run_task' # run_task /\ \E k \in DOMAIN stops : stops[k].pc = "returned") =>
            /\ ~stopped' /\ ~stopped_event'
            /\ run_task' = Len(tasks')
            /\ tasks' = Append(tasks, NewTask)
            /\ TaskHandle(run_task') \in {ready'[n] : n \in DOMAIN ready'}]_vars

\* C12 witness: after a completed start()/stop() cycle and a restart, a second
\* stop(), made while the new loop was alive, has returned.
C12_Witness ==
    \E j \in RestartStops : stops[j].pc = "returned" /\ tasks[stops[j].gen].pc = "done"

\* The clock has reached its bound: a timer is pending that it cannot move to.
Horizon ==
    \E t \in DOMAIN timers :
        timers[t].st = "pending" /\ timers[t].when > MaxCycles * timeout_in_seconds

\* C13: every stop() made on a supervisor that was started eventually returns,
\* whatever the ApiCalls of the pulses resolve to (in the behaviours that do not
\* end at the clock's bound).
C13_StopEventuallyReturns ==
    \A j \in 1..MaxCalls :
        (j \in DOMAIN stops /\ stops[j].gen > 0)
            ~> (Horizon \/ (j \in DOMAIN stops /\ stops[j].pc = "returned"))

\* C14: a pulse whose get-state call does not report success ends there, having
\* issued no status request, whatever the registry holds; when the call reported
\* failure, pulse() raises the protocol error, which loop() catches: the pulse is
\* recorded as failed and the loop is alive.
C14_FailedGetStateNoFollowUps ==
    /\ [](\A i \in DOMAIN tasks : tasks[i].pc = "get_state" => tasks[i].calls = <<>>)
    /\ [][\A i \in DOMAIN tasks :
            (Resumes(i) /\ tasks[i].pc = "get_state" /\ tasks[i].res # "success") =>
                /\ tasks[i].calls = <<>>
                /\ tasks'[i].calls = <<>>
                /\ tasks'[i].pc # "status_request"
                /\ tasks'[i].pulses = tasks[i].pulses \/ tasks'[i].pc = "get_state"
                /\ tasks[i].res = "failure" =>
                      tasks'[i].failed /\ tasks'[i].pc \notin Exited]_vars

\* C14 witness: over a registry with two Blind nodes, the loop waits for its next
\* timer after a pulse whose get-state call reported failure.
C14_Witness ==
    /\ Len(BlindIds) >= 2
    /\ \E i \in DOMAIN tasks : tasks[i].pc = "wait" /\ tasks[i].failed

\* The state cancel_loop_timeout() leaves when it is called now.
Canceled == cancel_loop_timeout(Cur)

\* C15: called in any state, cancel_loop_timeout() empties the handle, leaves the
\* timer the handle referred to canceled (or fired, if it had fired) and out of
\* the event loop's queue, touches no other timer, no task, no stop() call and
\* none of the stop flag, the wake signal and the stop-complete signal, and does
\* nothing when called again; a canceled timer stays canceled: it never fires.
C15_CancelAnytime ==
    /\ [](/\ Canceled.timeout_handle = 0
          /\ Canceled.loop_event = loop_event
          /\ Canceled.stopped_event = stopped_event
          /\ Canceled.tasks = tasks
          /\ Canceled.stops = stops
          /\ DOMAIN Canceled.timers = DOMAIN timers
          /\ \A t \in DOMAIN timers :
                IF t = timeout_handle /\ t \in ActiveTimers
                THEN /\ Canceled.timers[t].st = "canceled"
                     /\ \A n \in DOMAIN Canceled.ready : Canceled.ready[n] # TimerHandle(t)
                ELSE Canceled.timers[t] = timers[t]
          /\ cancel_loop_timeout(Canceled) = Canceled
          /\ timeout_handle = 0 => Canceled = Cur)
    /\ [][/\ \A t \in DOMAIN timers :
                timers[t].st = "canceled" => timers'[t].st = "canceled"
          /\ (timeout_handle # 0 /\ timeout_handle' = 0 /\ tasks' = tasks) =>
                /\ timers'[timeout_handle].st \in {"canceled", "fired"}
                /\ stopped' = stopped /\ loop_event' = loop_event
                /\ stopped_event' = stopped_event /\ stops' = stops]_vars

\* C15 witness: with no stop requested, the loop waits for the wake signal and
\* its timer has been canceled from outside: the handle is empty.
C15_Witness ==
    /\ ~stopped
    /\ timeout_handle = 0
    /\ \E i \in DOMAIN tasks : tasks[i].pc = "wait"
    /\ \E t \in DOMAIN timers : timers[t].st = "canceled"

\* Loop task i was created by a start() made after start()/stop() cycles that
\* all completed, and no stop() was made since.
Restarted(i) ==
    /\ i > 1
    /\ i = run_task
    /\ StopsOnStarted
    /\ \E j \in DOMAIN stops : stops[j].gen = i - 1
    /\ \A j \in DOMAIN stops : stops[j].gen < i /\ stops[j].pc = "returned"

\* C16: in a restarted run the wake signal is clear when the new loop suspends,
\* and a pulse of the new run is in flight only when the timer armed in the same
\* iteration has fired.
C16_FreshWakeSignal ==
    \A i \in DOMAIN tasks :
        Restarted(i) =>
            /\ tasks[i].pc = "wait" => ~loop_event
            /\ tasks[i].pc \in InPulse => timers[timeout_handle].st = "fired"

ActiveLoops == {i \in DOMAIN tasks : tasks[i].pc \notin Exited}

\* C18: at most one loop task of the supervisor is alive at any time, also when
\* start() is called while a loop is alive.
C18_AtMostOneLoop == Cardinality(ActiveLoops) <= 1

\* stop() calls j and k were made on the same run while its loop was alive, the
\* later one before the earlier one had returned.
Concurrent(j, k) ==
    /\ j \in DOMAIN stops /\ k \in DOMAIN stops
    /\ j < k
    /\ stops[j].gen = stops[k].gen
    /\ stops[j].lpc \notin {"none"} \cup Exited
    /\ stops[k].lpc \notin {"none"} \cup Exited

\* C19: of two stop() calls made concurrently on a running supervisor, neither
\* has returned unless the loop has exited and no timer it armed is held by
\* the scheduler (in the runs in which stop() is only called on a started
\* supervisor), and both eventually return (in the behaviours that do not end
\* at the clock's bound).
C19_ConcurrentStops ==
    /\ [](\A j, k \in DOMAIN stops :
            (StopsOnStarted /\ Concurrent(j, k)
                    /\ "returned" \in {stops[j].pc, stops[k].pc}) =>
                /\ tasks[stops[j].gen].pc = "done"
                /\ \A t \in ActiveTimers : timers[t].by # stops[j].gen)
    /\ \A j, k \in 1..MaxCalls :
          Concurrent(j, k)
              ~> \/ Horizon
                 \/ Concurrent(j, k) /\ stops[j].pc = "returned" /\ stops[k].pc = "returned"

====
